---- MODULE Spec2Model ----
(***************************************************************************)
(* Model of the agent-based simulation of src/src/abm.py (Agent,           *)
(* Environment) and of its multiprocessing driver src/src/simulation.py    *)
(* (params, worker_env, update, initializer, doit).                        *)
(*                                                                         *)
(* Numbers.  cur_data starts as a Python int (random.randint) and becomes  *)
(* the result of a true division.  A value is modelled as an exact         *)
(* fraction [n, d] in lowest terms with d > 0; [n |-> 0, d |-> 0] stands   *)
(* for Python's None.  The sum is folded in the order the code folds it.   *)
(*                                                                         *)
(* Processes.  The master process runs doit.  Pool(...) starts             *)
(* params["processes"] worker processes; each gets its own copy of the     *)
(* initargs (the Environment as it is when the pool is created) and stores *)
(* it in its own global worker_env.  Pool.map sends one pickled copy of    *)
(* each Agent as a task, hands the tasks to idle workers in submission     *)
(* order, and returns the list of results in submission order once every   *)
(* task has finished, or re-raises the first exception of a task.          *)
(***************************************************************************)
EXTENDS Integers, Sequences, FiniteSets, TLC

\* ------------------------------------------------------------------------
\* Bounds of the model (the program's params hold 20 agents, 3 neighbours,
\* 30 iterations, 15 processes).
MaxAgents == 3
MaxNeighbors == 2
MaxIter == 2
MaxProc == 2

\* Values random.randint may return: a sample of the integers.
InitValues == {10, 20, 30}

\* params["max"] (50 in the program).
ParamMax == {30}

\* params["max"] of the runs whose progress is checked: one initial value.
ParamMaxFair == {10}

\* Values of Environment.my_special_stuff: 3 as __init__ sets it, 1, and 0
\* (the value for which the division of calculate_update raises).
SpecialFactors == {0, 1, 3}

\* params["process_time"]: no sleep, or some sleep.
ProcessTimes == {0, 1}

\* ------------------------------------------------------------------------
\* Exact fractions.
Abs(x) == IF x < 0 THEN -x ELSE x

\* Euclid's algorithm; the set constructor has each step's arguments
\* evaluated once.
RECURSIVE GCD(_, _)
GCD(a, b) ==
    IF b = 0 THEN a
    ELSE CHOOSE g \in {GCD(y, x % y) : x \in {a}, y \in {b}} : TRUE

None == [n |-> 0, d |-> 0]

IsNone(v) == v.d = 0

Norm(n, d) ==
    LET Reduce(x, y) ==
            LET g == GCD(Abs(x), Abs(y))
                s == IF y < 0 THEN -1 ELSE 1
            IN  [n |-> (s * x) \div g, d |-> (s * y) \div g]
    IN  CHOOSE r \in {Reduce(x, y) : x \in {n}, y \in {d}} : TRUE

IntVal(x) == [n |-> x, d |-> 1]

RAdd(a, b) ==
    CHOOSE r \in {Norm(x.n * y.d + y.n * x.d, x.d * y.d) : x \in {a}, y \in {b}} :
        TRUE

RDiv(a, f) == Norm(a.n, a.d * f)

\* sum(iterable): left fold from 0.
RECURSIVE RSumFrom(_, _, _)
RSumFrom(acc, s, j) ==
    IF j > Len(s) THEN acc ELSE RSumFrom(RAdd(acc, s[j]), s, j + 1)

RSum(s) == RSumFrom(IntVal(0), s, 1)

\* ------------------------------------------------------------------------
\* abm.py

\* Agent.__init__ before the call of env.register.
NewAgent(id) ==
    [id |-> id, cur_data |-> None, next_data |-> None,
     neighbors |-> <<>>, process_time |-> 0]

\* Environment.__init__
NewEnvironment(factor) == [population |-> <<>>, my_special_stuff |-> factor]

register_id_after(e) == Len(e.population) + 1

\* Environment.register: the id it returns.
register_id(e) == (Len(e.population) + 1) - 1

\* Environment.register together with Agent.__init__'s self.id = ...
register(e) ==
    [e EXCEPT !.population = Append(e.population, NewAgent(register_id(e)))]

\* Environment.lookup: self.population[id] with Python's list indexing: a
\* negative index -n..-1 counts from the end, any other index outside 0..n-1
\* raises IndexError.
lookup(e, id) ==
    LET n == Len(e.population)
    IN  IF id >= 0 /\ id < n
          THEN [ok |-> TRUE, agent |-> e.population[id + 1], err |-> "none"]
        ELSE IF id < 0 /\ id >= -n
          THEN [ok |-> TRUE, agent |-> e.population[n + id + 1], err |-> "none"]
        ELSE [ok |-> FALSE, agent |-> NewAgent(-1), err |-> "IndexError"]

Others_all(e, id) == 0..(Len(e.population) - 1)

Others_from_one(e, id) == {x \in 1..Len(e.population) : x # id}

\* list(range(len(env.population))) followed by l.remove(self.id)
Others(e, id) == {x \in 0..(Len(e.population) - 1) : x # id}

sample_raises_early(l, k) == k < 0 \/ k >= Cardinality(l)

\* random.randint(lo, hi): the sampled integers within lo..hi.
randint(lo, hi) == {v \in InitValues : lo <= v /\ v <= hi}

\* random.sample(l, k) raises ValueError when k < 0 or k > len(l).
sample_raises(l, k) == k < 0 \/ k > Cardinality(l)

\* random.sample(l, k): every list of k distinct elements of l.
sample(l, k) ==
    {s \in [1..k -> l] : \A x, y \in 1..k : x # y => s[x] # s[y]}

\* Agent.calculate_update: the values read through f, the neighbours' cur_data.
reads_of(a, e) ==
    [j \in 1..Len(a.neighbors) |->
        IF lookup(e, a.neighbors[j]).ok
          THEN lookup(e, a.neighbors[j]).agent.cur_data
          ELSE None]

calculate_update_noself(a, e) ==
    LET rd == reads_of(a, e)
    IN  IF e.my_special_stuff = 0
          THEN [ok |-> FALSE, data |-> None, err |-> "ZeroDivisionError",
                next_data |-> a.next_data]
          ELSE [ok |-> TRUE, data |-> RDiv(RSum(rd), e.my_special_stuff),
                err |-> "none",
                next_data |-> RDiv(RSum(rd), e.my_special_stuff)]

calculate_update_nostore(a, e) ==
    LET rd == reads_of(a, e)
    IN  IF e.my_special_stuff = 0
          THEN [ok |-> FALSE, data |-> None, err |-> "ZeroDivisionError",
                next_data |-> a.next_data]
          ELSE [ok |-> TRUE,
                data |-> RDiv(RAdd(RSum(rd), a.cur_data), e.my_special_stuff),
                err |-> "none", next_data |-> a.next_data]

\* Agent.calculate_update(env): the value returned, or the exception raised,
\* and the next_data of the agent object it was called on afterwards.
calculate_update(a, e) ==
    LET rd == reads_of(a, e)
    IN  IF \E j \in 1..Len(a.neighbors) : ~lookup(e, a.neighbors[j]).ok
          THEN [ok |-> FALSE, data |-> None, err |-> "IndexError",
                next_data |-> a.next_data]
        ELSE IF IsNone(a.cur_data) \/ \E j \in 1..Len(rd) : IsNone(rd[j])
          THEN [ok |-> FALSE, data |-> None, err |-> "TypeError",
                next_data |-> a.next_data]
        ELSE IF e.my_special_stuff = 0
          THEN [ok |-> FALSE, data |-> None, err |-> "ZeroDivisionError",
                next_data |-> a.next_data]
        ELSE [ok |-> TRUE,
              data |-> RDiv(RAdd(RSum(rd), a.cur_data), e.my_special_stuff),
              err |-> "none",
              next_data |-> RDiv(RAdd(RSum(rd), a.cur_data),
                                 e.my_special_stuff)]

do_update_next(a, data) ==
    IF IsNone(data)
      THEN [a EXCEPT !.cur_data = a.next_data]
      ELSE [a EXCEPT !.cur_data = data, !.next_data = data]

\* Agent.do_update(data)
do_update(a, data) ==
    IF IsNone(data)
      THEN [a EXCEPT !.cur_data = a.next_data]
      ELSE [a EXCEPT !.cur_data = data]

\* ------------------------------------------------------------------------
\* State
VARIABLES
    params,      \* the params dictionary
    env,         \* the master's Environment
    pc,          \* the master's position in doit
    idx,         \* loop index of the two population loops of doit
    i,           \* loop index of the iteration loop
    pool,        \* the Pool of the current iteration
    result,      \* the list p.map returned
    k,           \* number of items of result the commit loop has consumed
    out,         \* the lines printed, one per iteration
    err,         \* the exception that ended doit, "none" while it runs
    roundStart,  \* history: env.population when the current iteration began
    setupEnv,    \* history: env when the setup loop ended
    failed,      \* history: a task of the current iteration has raised
    ndispatch,   \* history: number of p.map calls
    ncommit,     \* history: number of do_update calls
    nsetup,      \* history: number of setup calls, per position of the agent
    ret          \* the value the last call of the abm API returned

vars == <<params, env, pc, idx, i, pool, result, k, out, err, roundStart,
          setupEnv, failed, ndispatch, ncommit, nsetup, ret>>

NoEnv == [population |-> <<>>, my_special_stuff |-> -1]

NoTask == [job |-> 0, a |-> NewAgent(-1), stage |-> "idle"]

NoPool == [open |-> FALSE, initargs |-> NoEnv, workers |-> <<>>,
           taskq |-> <<>>, results |-> <<>>]

NoRet == [call |-> "none", arg |-> 0, ok |-> TRUE, id |-> -1]

\* The state when doit is entered, for the given values of params["max"].
InitWith(maxes) ==
    /\ params \in [agents : 0..MaxAgents, neighbors : 0..MaxNeighbors,
                   iterations : 0..MaxIter, processes : 1..MaxProc,
                   process_time : ProcessTimes, max : maxes]
    /\ env \in {NewEnvironment(f) : f \in SpecialFactors}
    /\ pc = "create"
    /\ idx = 0
    /\ i = 0
    /\ pool = NoPool
    /\ result = <<>>
    /\ k = 0
    /\ out = <<>>
    /\ err = "none"
    /\ roundStart = <<>>
    /\ setupEnv = NoEnv
    /\ failed = FALSE
    /\ ndispatch = 0
    /\ ncommit = 0
    /\ nsetup = [j \in 1..MaxAgents |-> 0]
    /\ ret = NoRet

Init == InitWith(ParamMax)

\* ------------------------------------------------------------------------
\* simulation.py: the master process (doit)

\* Agent.setup up to the sampling: cur_data and process_time are assigned.
setup_begin(a, p, v) ==
    [a EXCEPT !.cur_data = IntVal(v), !.process_time = p.process_time]

\* Agent.setup, last statement: self.neighbors = random.sample(...)
setup_end(a, s) == [a EXCEPT !.neighbors = s]

LoopCond_inclusive(j, n) == j <= n

\* range(params["iterations"]): is there an iteration number i.
LoopCond(j, n) == j < n

initargs_first(e) == IF setupEnv = NoEnv THEN e ELSE setupEnv

\* initargs=(env,): what each worker process receives is its own copy of
\* the master's Environment at the time the pool is created.
initargs_of(e) == e

initializer_stale(arg) == IF setupEnv = NoEnv THEN arg ELSE setupEnv

\* initializer(arg): the value it stores in the worker's global worker_env.
initializer(arg) == arg

\* update(a) in a worker whose global is wenv, with the values it read.
update(a, wenv) ==
    LET Outcome(r) ==
            [state |-> IF r.ok THEN "ok" ELSE "err", id |-> a.id,
             data |-> r.data, err |-> r.err, own |-> a.cur_data,
             reads |-> reads_of(a, wenv), wrote_next |-> r.next_data]
    IN  CHOOSE u \in {Outcome(r) : r \in {calculate_update(a, wenv)}} : TRUE

Pending(id) ==
    [state |-> "pending", id |-> id, data |-> None, err |-> "none",
     own |-> None, reads |-> <<>>, wrote_next |-> None]

map_ready_ok(rs) == \A j \in 1..Len(rs) : rs[j].state = "ok"

map_ready_any(rs) == Len(rs) = 0 \/ \E j \in 1..Len(rs) : rs[j].state # "pending"

map_ready_nowait(rs) == TRUE

\* Pool.map blocks until every task of the batch has finished.
map_ready(rs) == \A j \in 1..Len(rs) : rs[j].state # "pending"

IsFinished(r) == r.state # "pending"

IsErr(r) == r.state = "err"

IsOk(r) == r.state = "ok"

map_outcome_skip(rs) ==
    LET good == SelectSeq(rs, IsOk)
    IN  [raised |-> FALSE, err |-> "none",
         value |-> [j \in 1..Len(good) |-> <<good[j].id, good[j].data>>]]

map_outcome_swallow(rs) ==
    [raised |-> FALSE, err |-> "none",
     value |-> [j \in 1..Len(rs) |-> <<rs[j].id, rs[j].data>>]]

\* Pool.map: the list of the tasks' return values in submission order, or
\* the exception of the first task that raised.
map_outcome(rs) ==
    LET done == SelectSeq(rs, IsFinished)
        bad  == SelectSeq(rs, IsErr)
    IN  IF Len(bad) > 0
          THEN [raised |-> TRUE, err |-> bad[1].err, value |-> <<>>]
          ELSE [raised |-> FALSE, err |-> "none",
                value |-> [j \in 1..Len(done) |-> <<done[j].id, done[j].data>>]]

\* env.lookup(id).do_update(data) on the master's environment.
commit_one(e, id, data) ==
    LET n == Len(e.population)
        pos == IF id >= 0 THEN id + 1 ELSE n + id + 1
    IN  [e EXCEPT !.population[pos] = do_update(lookup(e, id).agent, data)]

commit_done_first(kk, res) == kk = Len(res) \/ kk >= 1

\* for id, data in result: the loop ends when every item has been consumed.
commit_done(kk, res) == kk = Len(res)

report_next(e, it) ==
    [iteration |-> it,
     values |-> [j \in 1..Len(e.population) |->
                    <<e.population[j].id, e.population[j].next_data>>]]

\* The text print receives: "A" + id + ":" + cur_data for every agent.
report(e, it) ==
    [iteration |-> it,
     values |-> [j \in 1..Len(e.population) |->
                    <<e.population[j].id, e.population[j].cur_data>>]]

\* for i in range(params["agents"]): Agent(env)
CreateAgent ==
    /\ pc = "create"
    /\ idx < params.agents
    /\ env' = register(env)
    /\ ret' = [call |-> "register", arg |-> 0, ok |-> TRUE,
               id |-> register_id(env)]
    /\ idx' = idx + 1
    /\ UNCHANGED <<params, pc, i, pool, result, k, out, err, roundStart,
                   setupEnv, failed, ndispatch, ncommit,
                   nsetup>>

CreateDone ==
    /\ pc = "create"
    /\ idx = params.agents
    /\ pc' = "setup"
    /\ idx' = 0
    /\ UNCHANGED <<params, env, i, pool, result, k, out, err, roundStart,
                   setupEnv, failed, ndispatch, ncommit, ret,
                   nsetup>>

setup_done_first(j, e) == j = Len(e.population) \/ j >= 1

\* for a in env.population: the loop ends after the last agent.
setup_done(j, e) == j = Len(e.population)

\* for a in env.population: a.setup(params, env)
SetupAgent ==
    /\ pc = "setup"
    /\ ~setup_done(idx, env)
    /\ idx < Len(env.population)
    /\ \E v \in randint(-params.max, params.max) :
         LET a == setup_begin(env.population[idx + 1], params, v)
             l == Others(env, a.id)
         IN  IF sample_raises(l, params.neighbors)
               THEN /\ env' = [env EXCEPT !.population[idx + 1] = a]
                    /\ pc' = "crashed"
                    /\ err' = "ValueError"
                    /\ idx' = idx
               ELSE /\ \E s \in sample(l, params.neighbors) :
                         env' = [env EXCEPT
                                    !.population[idx + 1] = setup_end(a, s)]
                    /\ idx' = idx + 1
                    /\ UNCHANGED <<pc, err>>
    /\ nsetup' = [nsetup EXCEPT ![idx + 1] = @ + 1]
    /\ UNCHANGED <<params, i, pool, result, k, out, roundStart, setupEnv,
                   failed, ndispatch, ncommit, ret>>

SetupDone ==
    /\ pc = "setup"
    /\ setup_done(idx, env)
    /\ pc' = "loop"
    /\ setupEnv' = env
    /\ UNCHANGED <<params, env, idx, i, pool, result, k, out, err, roundStart,
                   failed, ndispatch, ncommit, ret,
                   nsetup>>

pool_size_plus(p) == p.processes + 1

\* Pool(params["processes"], ...): the number of worker processes.
pool_size(p) == p.processes

\* Loop head and Pool(params["processes"], initializer, initargs=(env,)):
\* the worker processes are started.
PoolCreate ==
    /\ pc = "loop"
    /\ LoopCond(i, params.iterations)
    /\ pool' = [open |-> TRUE, initargs |-> initargs_of(env),
                workers |-> [w \in 1..pool_size(params) |->
                                [worker_env |-> NoEnv, task |-> NoTask]],
                taskq |-> <<>>, results |-> <<>>]
    /\ roundStart' = env.population
    /\ failed' = FALSE
    /\ pc' = "pool"
    /\ UNCHANGED <<params, env, idx, i, result, k, out, err, setupEnv,
                   ndispatch, ncommit, ret,
                   nsetup>>

LoopExit ==
    /\ pc = "loop"
    /\ ~LoopCond(i, params.iterations)
    /\ pc' = "done"
    /\ UNCHANGED <<params, env, idx, i, pool, result, k, out, err, roundStart,
                   setupEnv, failed, ndispatch, ncommit, ret,
                   nsetup>>

\* p.map(update, env.population): one task per agent, each with a pickled
\* copy of the agent; the master then blocks.
MapDispatch ==
    /\ pc = "pool"
    /\ pool' = [pool EXCEPT
                  !.taskq = [j \in 1..Len(env.population) |->
                               [job |-> j, a |-> env.population[j],
                                stage |-> "queued"]],
                  !.results = [j \in 1..Len(env.population) |->
                                 Pending(env.population[j].id)]]
    /\ ndispatch' = ndispatch + 1
    /\ pc' = "map"
    /\ UNCHANGED <<params, env, idx, i, result, k, out, err, roundStart,
                   setupEnv, failed, ncommit, ret,
                   nsetup>>

\* p.map returns (or raises) and the with block terminates the pool.
MapReturn ==
    /\ pc = "map"
    /\ map_ready(pool.results)
    /\ LET o == map_outcome(pool.results)
       IN  IF o.raised
             THEN /\ pc' = "crashed"
                  /\ err' = o.err
                  /\ UNCHANGED <<result, k>>
             ELSE /\ pc' = "commit"
                  /\ result' = o.value
                  /\ k' = 0
                  /\ err' = err
    /\ pool' = NoPool
    /\ UNCHANGED <<params, env, idx, i, out, roundStart, setupEnv, failed,
                   ndispatch, ncommit, ret,
                   nsetup>>

\* for id, data in result: env.lookup(id).do_update(data)
Commit ==
    /\ pc = "commit"
    /\ ~commit_done(k, result)
    /\ k < Len(result)
    /\ env' = commit_one(env, result[k + 1][1], result[k + 1][2])
    /\ k' = k + 1
    /\ ncommit' = ncommit + 1
    /\ UNCHANGED <<params, pc, idx, i, pool, result, out, err, roundStart,
                   setupEnv, failed, ndispatch, ret,
                   nsetup>>

\* print("Iteration {} ...") and the next iteration
Report ==
    /\ pc = "commit"
    /\ commit_done(k, result)
    /\ out' = Append(out, report(env, i))
    /\ i' = i + 1
    /\ pc' = "loop"
    /\ UNCHANGED <<params, env, idx, pool, result, k, err, roundStart,
                   setupEnv, failed, ndispatch, ncommit, ret,
                   nsetup>>

\* ------------------------------------------------------------------------
\* simulation.py: the worker processes of the pool

\* A started worker process runs initializer(*initargs).
WorkerInit(w) ==
    /\ pool.open
    /\ w \in DOMAIN pool.workers
    /\ pool.workers[w].worker_env = NoEnv
    /\ pool' = [pool EXCEPT
                  !.workers[w].worker_env = initializer(pool.initargs)]
    /\ UNCHANGED <<params, env, pc, idx, i, result, k, out, err, roundStart,
                   setupEnv, failed, ndispatch, ncommit, ret,
                   nsetup>>

\* An initialised idle worker takes the next task of the queue and enters
\* calculate_update; with process_time > 0 it sleeps first.
TaskStart(w) ==
    /\ pool.open
    /\ w \in DOMAIN pool.workers
    /\ pool.workers[w].worker_env # NoEnv
    /\ pool.workers[w].task.job = 0
    /\ Len(pool.taskq) > 0
    /\ LET t == Head(pool.taskq)
       IN  pool' = [pool EXCEPT
                      !.taskq = Tail(pool.taskq),
                      !.workers[w].task =
                          [t EXCEPT !.stage = IF t.a.process_time > 0
                                                THEN "sleep" ELSE "calc"]]
    /\ UNCHANGED <<params, env, pc, idx, i, result, k, out, err, roundStart,
                   setupEnv, failed, ndispatch, ncommit, ret,
                   nsetup>>

\* time.sleep(self.process_time) returns.
Wake(w) ==
    /\ pool.open
    /\ w \in DOMAIN pool.workers
    /\ pool.workers[w].task.stage = "sleep"
    /\ pool' = [pool EXCEPT !.workers[w].task.stage = "calc"]
    /\ UNCHANGED <<params, env, pc, idx, i, result, k, out, err, roundStart,
                   setupEnv, failed, ndispatch, ncommit, ret,
                   nsetup>>

\* The worker computes update(a) against its worker_env and sends the
\* result (or the exception) back to the master.
TaskFinish(w) ==
    /\ pool.open
    /\ w \in DOMAIN pool.workers
    /\ pool.workers[w].task.stage = "calc"
    /\ LET t == pool.workers[w].task
           r == update(t.a, pool.workers[w].worker_env)
       IN  /\ pool' = [pool EXCEPT !.results[t.job] = r,
                                   !.workers[w].task = NoTask]
           /\ failed' = (failed \/ r.state = "err")
    /\ UNCHANGED <<params, env, pc, idx, i, result, k, out, err, roundStart,
                   setupEnv, ndispatch, ncommit, ret,
                   nsetup>>

Next ==
    \/ CreateAgent
    \/ CreateDone
    \/ SetupAgent
    \/ SetupDone
    \/ PoolCreate
    \/ LoopExit
    \/ MapDispatch
    \/ MapReturn
    \/ Commit
    \/ Report
    \/ \E w \in 1..MaxProc : WorkerInit(w)
    \/ \E w \in 1..MaxProc : TaskStart(w)
    \/ \E w \in 1..MaxProc : Wake(w)
    \/ \E w \in 1..MaxProc : TaskFinish(w)

Spec == Init /\ [][Next]_vars

\* ------------------------------------------------------------------------
\* abm.py used directly by a driver script: agents are created, set up and
\* looked up in any order, with any id.

InitEnv ==
    /\ Init
    /\ params.agents = MaxAgents
    /\ params.iterations = 0
    /\ params.processes = 1
    /\ params.process_time = 0
    /\ env.my_special_stuff = 3

\* Agent(env)
ApiRegister ==
    /\ Len(env.population) < MaxAgents
    /\ env' = register(env)
    /\ ret' = [call |-> "register", arg |-> 0, ok |-> TRUE,
               id |-> register_id(env)]
    /\ UNCHANGED <<params, pc, idx, i, pool, result, k, out, err, roundStart,
                   setupEnv, failed, ndispatch, ncommit,
                   nsetup>>

\* env.population[j - 1].setup(params, env), once per agent
ApiSetup(j) ==
    /\ j \in 1..Len(env.population)
    /\ IsNone(env.population[j].cur_data)
    /\ \E v \in randint(-params.max, params.max) :
         LET a == setup_begin(env.population[j], params, v)
             l == Others(env, a.id)
         IN  IF sample_raises(l, params.neighbors)
               THEN /\ env' = [env EXCEPT !.population[j] = a]
                    /\ ret' = [call |-> "setup", arg |-> a.id, ok |-> FALSE,
                               id |-> a.id]
               ELSE /\ \E s \in sample(l, params.neighbors) :
                         env' = [env EXCEPT !.population[j] = setup_end(a, s)]
                    /\ ret' = [call |-> "setup", arg |-> a.id, ok |-> TRUE,
                               id |-> a.id]
    /\ nsetup' = [nsetup EXCEPT ![j] = @ + 1]
    /\ UNCHANGED <<params, pc, idx, i, pool, result, k, out, err, roundStart,
                   setupEnv, failed, ndispatch, ncommit>>

\* env.lookup(id)
ApiLookup(id) ==
    /\ ret' = [call |-> "lookup", arg |-> id, ok |-> lookup(env, id).ok,
               id |-> lookup(env, id).agent.id]
    /\ UNCHANGED <<params, env, pc, idx, i, pool, result, k, out, err,
                   roundStart, setupEnv, failed, ndispatch, ncommit,
                   nsetup>>

NextEnv ==
    \/ ApiRegister
    \/ \E j \in 1..MaxAgents : ApiSetup(j)
    \/ \E id \in (-(MaxAgents + 1))..(MaxAgents + 1) : ApiLookup(id)

SpecEnv == InitEnv /\ [][NextEnv]_vars

\* ------------------------------------------------------------------------
\* Properties

NAgents == Len(env.population)

\* A round of the loop has run to its end: the report has been printed.
RoundDone == pc \in {"loop", "done"} /\ i >= 1

\* Product of the denominators of the values of a population.
RECURSIVE DenProd(_, _)
DenProd(pop, j) ==
    IF j > Len(pop) THEN 1 ELSE pop[j].cur_data.d * DenProd(pop, j + 1)

\* Numerator of v over the common denominator dd (a multiple of v.d).
Scaled(v, dd) == v.n * (dd \div v.d)

\* Sum of the numerators, over dd, of the agents whose ids are nb[j..].
RECURSIVE NbSum(_, _, _, _)
NbSum(pop, nb, dd, j) ==
    IF j > Len(nb) THEN 0
    ELSE Scaled(pop[nb[j] + 1].cur_data, dd) + NbSum(pop, nb, dd, j + 1)

\* v is the fraction (own + sum of the neighbours' values) / f, all taken
\* from the population pre, in lowest terms.
IsUpdateOf(v, pre, j, f) ==
    LET dd == DenProd(pre, 1)
    IN  /\ v.d > 0
        /\ GCD(Abs(v.n), v.d) = 1
        /\ v.n * dd * f =
             v.d * (Scaled(pre[j].cur_data, dd)
                      + NbSum(pre, pre[j].neighbors, dd, 1))

\* C1: every finished update computation of the running round has read, for
\* itself and for each of its neighbours, the cur_data the master's
\* population held when the round began.
C1_BarrierReads ==
    pool.open =>
      \A j \in 1..Len(pool.results) :
        pool.results[j].state # "pending" =>
          /\ pool.results[j].own = roundStart[j].cur_data
          /\ pool.results[j].reads =
               [m \in 1..Len(roundStart[j].neighbors) |->
                  roundStart[roundStart[j].neighbors[m] + 1].cur_data]

\* A task of the second round has finished with a neighbour read whose value
\* the first round changed, while another task is still being computed.
C1_Witness ==
    /\ pool.open
    /\ i = 1
    /\ \E j \in 1..Len(pool.results) :
         /\ pool.results[j].state = "ok"
         /\ Len(pool.results[j].reads) > 0
         /\ pool.results[j].reads[1] #
              setupEnv.population[roundStart[j].neighbors[1] + 1].cur_data
    /\ \E w \in DOMAIN pool.workers : pool.workers[w].task.job # 0

\* C2: while the pool of a round exists no agent has been committed, and
\* once a commit of the round has happened the pool is gone and the result
\* list holds the result of every agent of the population.
C2_NoPartialCommit ==
    /\ pool.open =>
         /\ Len(roundStart) = NAgents
         /\ \A j \in 1..NAgents :
              env.population[j].cur_data = roundStart[j].cur_data
    /\ (pc = "commit" /\ k > 0) =>
         /\ ~pool.open
         /\ Len(result) = NAgents
         /\ \A j \in 1..NAgents : result[j][1] = env.population[j].id

\* Some but not all agents of a round computed by two workers are committed.
C2_Witness ==
    /\ pc = "commit"
    /\ k > 0
    /\ k < Len(result)
    /\ params.processes = 2
    /\ env.population[1].cur_data # roundStart[1].cur_data

\* C3: once an update computation of the round has raised, the population
\* of the master equals the population as it was when the round began.
C3_AtomicOnFailure ==
    failed => env.population = roundStart

\* doit has ended with the exception of a task, in a population of three.
C3_Witness ==
    /\ failed
    /\ pc = "crashed"
    /\ err = "ZeroDivisionError"
    /\ NAgents = 3
    /\ Len(env.population[1].neighbors) = 2

PhaseOrder ==
    {<<"create", "setup">>, <<"setup", "loop">>, <<"setup", "crashed">>,
     <<"loop", "pool">>, <<"loop", "done">>, <<"pool", "map">>,
     <<"map", "commit">>, <<"map", "crashed">>, <<"commit", "loop">>}

C4_Step ==
    /\ pc' # pc => <<pc, pc'>> \in PhaseOrder
    /\ (pool'.open /\ ~pool.open) =>
         /\ commit_done(k, result)
         /\ ncommit = i * NAgents
         /\ ndispatch = i
    /\ ndispatch' # ndispatch =>
         /\ pool.open
         /\ ndispatch = i
         /\ ncommit = i * NAgents
    /\ ncommit' # ncommit => (~pool.open /\ ndispatch = i + 1)

\* C4: the master goes through the phases pool creation (snapshot), dispatch,
\* collect, commit in this order; the pool of round i is created and its
\* tasks are dispatched only when all commits of the rounds before i are
\* done, and a commit happens only when the pool of its round is gone.
C4_RoundsInOrder == [][C4_Step]_vars

\* The tasks of the second round are dispatched.
C4_Witness ==
    /\ pc = "map"
    /\ i = 1
    /\ NAgents >= 2
    /\ ncommit = NAgents

\* C5: after a round has completed, every agent's cur_data is (its own
\* pre-round cur_data plus the sum of its neighbours' pre-round cur_data)
\* divided by my_special_stuff; with neighbours 0->1, 1->2, 2->0, factor 1
\* and values 10, 20, 30 the values after round 1 are 30, 50, 40.
C5_OneRoundResult ==
    RoundDone =>
      /\ \A j \in 1..NAgents :
           IsUpdateOf(env.population[j].cur_data, roundStart, j,
                      env.my_special_stuff)
      /\ ( /\ i = 1
           /\ NAgents = 3
           /\ env.my_special_stuff = 1
           /\ [j \in 1..3 |-> roundStart[j].cur_data] =
                <<IntVal(10), IntVal(20), IntVal(30)>>
           /\ [j \in 1..3 |-> roundStart[j].neighbors] =
                <<(<<1>>), (<<2>>), (<<0>>)>> )
         => [j \in 1..3 |-> env.population[j].cur_data] =
              <<IntVal(30), IntVal(50), IntVal(40)>>

\* The scenario of three agents in a ring has completed its first round.
C5_Witness ==
    /\ RoundDone
    /\ i = 1
    /\ NAgents = 3
    /\ env.my_special_stuff = 1
    /\ [j \in 1..3 |-> roundStart[j].cur_data] =
         <<IntVal(10), IntVal(20), IntVal(30)>>
    /\ [j \in 1..3 |-> roundStart[j].neighbors] = <<(<<1>>), (<<2>>), (<<0>>)>>

\* The values the report of round r must be computed from: the values set
\* by setup for the first report, the values of the report before otherwise.
ReportBase(r) ==
    [j \in 1..Len(setupEnv.population) |->
        [setupEnv.population[j] EXCEPT
            !.cur_data = IF r = 1 THEN setupEnv.population[j].cur_data
                         ELSE out[r - 1].values[j][2]]]

\* C6: every printed report is a function of the state setup left and of
\* the round number alone: report r lists, for every agent, the update of
\* the values of report r - 1 (of setup for r = 1), whatever the number of
\* processes, the sleep time and the order in which the tasks ran.
C6_Deterministic ==
    \A r \in 1..Len(out) :
      /\ out[r].iteration = r - 1
      /\ Len(out[r].values) = Len(setupEnv.population)
      /\ \A j \in 1..Len(setupEnv.population) :
           /\ out[r].values[j][1] = j - 1
           /\ IsUpdateOf(out[r].values[j][2], ReportBase(r), j,
                         setupEnv.my_special_stuff)

\* Two reports are printed by a run of two workers whose tasks sleep.
C6_Witness ==
    /\ Len(out) = 2
    /\ params.processes = 2
    /\ params.process_time > 0
    /\ NAgents = 3
    /\ out[2].values # out[1].values

\* C7: a run that reaches the end of doit has performed exactly
\* params["iterations"] rounds and printed that many reports; with zero
\* iterations nothing is ever dispatched, committed or printed.
C7_RoundCount ==
    /\ pc = "done" =>
         /\ i = params.iterations
         /\ Len(out) = params.iterations
         /\ ndispatch = params.iterations
         /\ ncommit = params.iterations * NAgents
    /\ params.iterations = 0 =>
         /\ ~pool.open
         /\ ndispatch = 0
         /\ ncommit = 0
         /\ out = <<>>

\* A run of two iterations over three agents has ended.
C7_Witness ==
    /\ pc = "done"
    /\ params.iterations = 2
    /\ NAgents = 3
    /\ Len(out) = 2

\* C8: lookup(id) raises when id is negative or id >= population size and
\* returns the agent whose id is id otherwise.
C8_LookupRange ==
    ret.call = "lookup" =>
      /\ ret.ok <=> (ret.arg >= 0 /\ ret.arg < NAgents)
      /\ ret.ok => ret.id = ret.arg

\* Some agent has run through setup (setup assigns cur_data first).
SetupRan == \E j \in 1..NAgents : ~IsNone(env.population[j].cur_data)

\* C9 as stated: setup fails whenever the neighbour count is >= population
\* size - 1.
C9_FailsFromSizeMinusOne ==
    (SetupRan /\ params.neighbors >= NAgents - 1) =>
      (pc = "crashed" /\ err = "ValueError")

\* C9 amended: setup fails with the ValueError of random.sample, leaving the
\* agent's neighbour list empty, whenever the neighbour count is greater
\* than population size - 1; with a count of at most population size - 1 it
\* succeeds and the agent has that many neighbours.
C9_FailsAboveSizeMinusOne ==
    SetupRan =>
      /\ params.neighbors > NAgents - 1 =>
           /\ pc = "crashed"
           /\ err = "ValueError"
           /\ idx = 0
           /\ env.population[1].neighbors = <<>>
      /\ params.neighbors <= NAgents - 1 =>
           /\ err # "ValueError"
           /\ \A j \in 1..NAgents :
                ~IsNone(env.population[j].cur_data) =>
                   Len(env.population[j].neighbors) = params.neighbors

\* The setup of the first of two agents has failed with a count of two.
C9_Witness ==
    /\ pc = "crashed"
    /\ err = "ValueError"
    /\ NAgents = 2
    /\ params.neighbors = 2
    /\ ~IsNone(env.population[1].cur_data)

\* C10: register returns the population size before the registration, and
\* the agent at index j of the population has the id j, in every state.
C10_DenseIds ==
    /\ \A j \in 1..NAgents : env.population[j].id = j - 1
    /\ (ret.call = "register" /\ pc = "create") => ret.id = NAgents - 1

\* Three agents are registered and a round has committed values to them.
C10_Witness ==
    /\ NAgents = 3
    /\ ret.call = "register"
    /\ ret.id = 2
    /\ pc = "commit"
    /\ k = 3

\* The agent at position j has run through setup without an exception.
SetupOk(j) ==
    /\ j \in 1..NAgents
    /\ IF pc = "create" THEN FALSE
       ELSE IF pc = "setup" \/ (pc = "crashed" /\ err = "ValueError")
         THEN j <= idx
       ELSE TRUE

\* The setup loop has ended and the iteration loop has been entered.
InRounds == pc \in {"loop", "pool", "map", "commit", "done"}
              \/ (pc = "crashed" /\ err # "ValueError")

\* C11: an agent that has been set up has params["neighbors"] neighbours,
\* none of them itself and no two of them equal.
C11_NeighborList ==
    \A j \in 1..NAgents :
      SetupOk(j) =>
        LET nb == env.population[j].neighbors
        IN  /\ Len(nb) = params.neighbors
            /\ \A m \in 1..Len(nb) : nb[m] # env.population[j].id
            /\ \A m, q \in 1..Len(nb) : m # q => nb[m] # nb[q]

\* Three agents are set up with two neighbours each.
C11_Witness ==
    /\ pc = "loop"
    /\ i = 0
    /\ NAgents = 3
    /\ params.neighbors = 2
    /\ \A j \in 1..3 : Len(env.population[j].neighbors) = 2

\* C12: setup is never called twice on an agent, it is called only when
\* all params["agents"] agents are registered, and when the iteration loop
\* is entered (hence before any dispatch) it has been called exactly once
\* on every agent.
C12_Lifecycle ==
    /\ \A j \in 1..MaxAgents : nsetup[j] <= 1
    /\ \A j \in 1..MaxAgents : nsetup[j] > 0 => j <= NAgents
    /\ (\E j \in 1..MaxAgents : nsetup[j] > 0) =>
         (NAgents = params.agents /\ pc # "create")
    /\ (InRounds \/ ndispatch > 0 \/ pool.open) =>
         \A j \in 1..NAgents : nsetup[j] = 1

\* The tasks of the first round of three agents are dispatched.
C12_Witness ==
    /\ pc = "map"
    /\ i = 0
    /\ ndispatch = 1
    /\ NAgents = 3
    /\ \A j \in 1..3 : nsetup[j] = 1

\* Everything of an agent but its cur_data.
Frame(a) == [a EXCEPT !.cur_data = None]

\* C13: from the end of setup on, the population has the size it had, and
\* every agent has the id, neighbour list, next_data and process_time it
\* had when setup ended; my_special_stuff is unchanged, too.
C13_RoundFrame ==
    InRounds =>
      /\ Len(env.population) = Len(setupEnv.population)
      /\ env.my_special_stuff = setupEnv.my_special_stuff
      /\ \A j \in 1..NAgents :
           Frame(env.population[j]) = Frame(setupEnv.population[j])

\* Two rounds have changed the cur_data of three agents.
C13_Witness ==
    /\ RoundDone
    /\ i = 2
    /\ NAgents = 3
    /\ \A j \in 1..3 :
         env.population[j].cur_data # setupEnv.population[j].cur_data

\* The workers of the pool that are inside update.
Busy == {w \in DOMAIN pool.workers : pool.workers[w].task.job # 0}

\* Number of places a job is at: waiting in the queue, in a worker, done.
JobPlaces(j) ==
    Cardinality({m \in 1..Len(pool.taskq) : pool.taskq[m].job = j})
      + Cardinality({w \in Busy : pool.workers[w].task.job = j})
      + (IF pool.results[j].state # "pending" THEN 1 ELSE 0)

\* C14: at most params["processes"] tasks are inside update at a time, and
\* every dispatched task is at exactly one place: waiting in the queue,
\* being executed by one worker, or finished.
C14_BoundedConcurrency ==
    pool.open =>
      /\ Cardinality(Busy) <= params.processes
      /\ Len(pool.results) \in {0, NAgents}
      /\ \A j \in 1..Len(pool.results) : JobPlaces(j) = 1

\* Both workers of the pool execute a task while a third task waits.
C14_Witness ==
    /\ pool.open
    /\ NAgents = 3
    /\ params.processes = 2
    /\ Cardinality(Busy) = 2
    /\ Len(pool.taskq) = 1

C15_Step ==
    /\ out' # out =>
         /\ out' = Append(out, out'[Len(out) + 1])
         /\ out'[Len(out) + 1].iteration = i
         /\ Len(out) = i
         /\ ~pool.open
         /\ ndispatch = i + 1
         /\ ncommit = (i + 1) * NAgents
         /\ env' = env
         /\ out'[Len(out) + 1].values =
              [j \in 1..NAgents |-> <<j - 1, env.population[j].cur_data>>]
    /\ ndispatch' # ndispatch => Len(out) = ndispatch

\* C15: a step that prints prints one report, numbered with the iteration,
\* when all commits of the iteration are done and its pool is gone; the
\* report lists every agent once, by increasing id, with its cur_data of
\* that moment; tasks are dispatched only when every earlier iteration has
\* printed its report.
C15_Report == [][C15_Step]_vars

\* The second report of a population of three is printed.
C15_Witness ==
    /\ Len(out) = 2
    /\ NAgents = 3
    /\ pc = "loop"
    /\ out[2].iteration = 1

\* C16 as stated: cur_data and next_data are written only in the commit
\* phase, so during dispatch and collect no agent's next_data is written.
C16_NoWriteWhileCollecting ==
    pool.open =>
      \A j \in 1..Len(pool.results) :
        IsNone(pool.results[j].wrote_next)

C16_Step ==
    /\ (pc # "setup" /\ \E j \in 1..NAgents :
            env'.population[j].cur_data # env.population[j].cur_data) =>
         /\ pc = "commit"
         /\ ~pool.open
         /\ Cardinality({j \in 1..NAgents :
               env'.population[j] # env.population[j]}) = 1

C16_State ==
    /\ \A j \in 1..NAgents : IsNone(env.population[j].next_data)
    /\ pool.open =>
         /\ env.population = roundStart
         /\ \A j \in 1..Len(pool.results) :
              pool.results[j].state = "ok" =>
                pool.results[j].wrote_next = pool.results[j].data
         /\ \A w, x \in Busy :
              w # x => pool.workers[w].task.job # pool.workers[x].task.job

\* C16 amended: in the master, cur_data is written only by setup and by the
\* commit loop, one agent per step and with no pool existing, and next_data
\* is never written; next_data is written by calculate_update in a worker
\* during collect, on the worker's own copy of the agent, and no two workers
\* hold the same agent.
C16_WritesByPhase == []C16_State /\ [][C16_Step]_vars

\* One worker has written next_data on its copy while another worker
\* computes and the master's values are those of the round's start.
C16_Witness ==
    /\ pool.open
    /\ i = 1
    /\ \E j \in 1..Len(pool.results) :
         /\ pool.results[j].state = "ok"
         /\ ~IsNone(pool.results[j].wrote_next)
    /\ Cardinality(Busy) = 1
    /\ params.processes = 2

\* C17: once a task of a round has raised, the master is still collecting
\* or has ended with the task's exception; the round is not dispatched
\* again, not committed, not counted and not reported.
C17_FailureSurfaces ==
    failed =>
      /\ pc \in {"map", "crashed"}
      /\ pc = "crashed" =>
           (err = "ZeroDivisionError" /\ ~pool.open)
      /\ ndispatch = i + 1
      /\ ncommit = i * NAgents
      /\ Len(out) = i

\* A run of two iterations and two workers has ended with the exception of
\* a task of its first round.
C17_Witness ==
    /\ failed
    /\ pc = "crashed"
    /\ err = "ZeroDivisionError"
    /\ params.iterations = 2
    /\ params.processes = 2
    /\ i = 0
    /\ out = <<>>

\* The cur_data every agent has in the master when round i begins.
CommittedBefore(j) ==
    IF i = 0 THEN setupEnv.population[j].cur_data ELSE out[i].values[j][2]

\* C19: the worker_env of every initialised worker of round i holds, for
\* every agent, the cur_data printed for round i - 1 (set by setup for the
\* first round).
C19_FreshSnapshot ==
    pool.open =>
      \A w \in DOMAIN pool.workers :
        pool.workers[w].worker_env # NoEnv =>
          /\ Len(pool.workers[w].worker_env.population) = NAgents
          /\ \A j \in 1..NAgents :
               pool.workers[w].worker_env.population[j].cur_data =
                 CommittedBefore(j)

\* Both workers of the second round are initialised with values that
\* differ from those of setup.
C19_Witness ==
    /\ pool.open
    /\ i = 1
    /\ params.processes = 2
    /\ NAgents >= 2
    /\ \A w \in DOMAIN pool.workers :
         /\ pool.workers[w].worker_env # NoEnv
         /\ pool.workers[w].worker_env.population[1].cur_data #
              setupEnv.population[1].cur_data

\* C20: once the whole population is set up, every neighbour id is an index
\* of the population, and no update computation fails with IndexError.
C20_NeighborsInRange ==
    InRounds =>
      /\ \A j \in 1..NAgents :
           \A m \in 1..Len(env.population[j].neighbors) :
             /\ env.population[j].neighbors[m] >= 0
             /\ env.population[j].neighbors[m] < NAgents
      /\ err # "IndexError"
      /\ pool.open =>
           \A j \in 1..Len(pool.results) :
             pool.results[j].err # "IndexError"

\* A task with two neighbours has finished in the first round.
C20_Witness ==
    /\ pool.open
    /\ i = 0
    /\ NAgents = 3
    /\ \E j \in 1..Len(pool.results) :
         /\ pool.results[j].state = "ok"
         /\ Len(pool.results[j].reads) = 2

\* ------------------------------------------------------------------------
\* Scheduling.  The master is one sequential process that is never blocked
\* but inside p.map; every worker process of the pool keeps being scheduled
\* by the operating system, time.sleep returns and calculate_update ends.
Master ==
    \/ CreateAgent \/ CreateDone \/ SetupAgent \/ SetupDone \/ PoolCreate
    \/ LoopExit \/ MapDispatch \/ MapReturn \/ Commit \/ Report

WorkerStep(w) == WorkerInit(w) \/ TaskStart(w) \/ Wake(w) \/ TaskFinish(w)

Fairness ==
    /\ WF_vars(Master)
    /\ \A w \in 1..MaxProc : WF_vars(WorkerStep(w))

InitFair == InitWith(ParamMaxFair)

SpecFair == InitFair /\ [][Next]_vars /\ Fairness

\* C18: with fair scheduling, every wait of the master in p.map ends, with
\* the commit loop or with the exception of a task; every commit loop ends
\* with the report of its round; every run ends, and a run that ends without
\* exception has committed params["iterations"] times every agent; whatever
\* the time the tasks sleep, the values a round commits are the updates of
\* the values the round began with.
C18_Progress ==
    /\ (pc = "map") ~> (pc \in {"commit", "crashed"})
    /\ (pc = "commit") ~> (pc = "loop")
    /\ <>(pc \in {"done", "crashed"})
    /\ [](pc = "done" => (i = params.iterations
                            /\ ncommit = params.iterations * NAgents))
    /\ [](RoundDone =>
            \A j \in 1..NAgents :
              IsUpdateOf(env.population[j].cur_data, roundStart, j,
                         env.my_special_stuff))

\* A run of two iterations with sleeping tasks on two workers has ended
\* after committing three agents twice.
C18_Witness ==
    /\ pc = "done"
    /\ params.iterations = 2
    /\ params.processes = 2
    /\ params.process_time > 0
    /\ NAgents = 3
    /\ ncommit = 6

====
